---------------------------- MODULE Spec2Model ----------------------------
(***************************************************************************)
(* Model of the Extravagant Pet Shop API (src/main.py): the three product  *)
(* endpoints GET /api/products, POST /api/products and POST /api/seed,     *)
(* over one "product" collection of a document store.                      *)
(*                                                                         *)
(* Representation                                                          *)
(*   - a searchable text (title, description, a tag, the q parameter) is a *)
(*     sequence of one-character strings, so that substring and regex      *)
(*     search are computed character by character;                         *)
(*   - an Optional value is a sequence of length 0 (None) or 1 (the        *)
(*     value): None == <<>>, Some(v) == <<v>>;                             *)
(*   - price is in cents and rating in tenths (29.99 -> 2999, 4.5 -> 45);  *)
(*   - a JSON object / dict / stored document is a function from field     *)
(*     names to values; a request body may lack fields;                    *)
(*   - the backend-assigned identifier of the n-th inserted document is n, *)
(*     and str() of it is ToString(n).                                     *)
(* The handlers are plain "def" endpoints, which the framework runs on a   *)
(* thread pool: requests interleave at their storage round-trips.  The     *)
(* list and create handlers make one round-trip and are one action each;   *)
(* the seed handler makes one round-trip for its emptiness check and one   *)
(* per demo product, and is one action per round-trip.                     *)
(***************************************************************************)
EXTENDS Integers, Sequences, FiniteSets, TLC

VARIABLES
    docs,        \* the "product" collection, in insertion order
    pc,          \* pc[s]: position of seed request s: "idle", "insert", "done"
    inserted,    \* inserted[s]: the local counter of seed request s
    resp,        \* resp[s]: the HTTP response of seed request s, once done
    last,        \* the most recent request step: operation, inputs, response
    acked,       \* history: <<id, body>> of every create answered with 201
    overlapped,  \* history: some seed request made its emptiness check while
                 \* another one was between its check and its first insert
    concurrent   \* history: some seed request made its emptiness check while
                 \* another one was still running

vars == <<docs, pc, inserted, resp, last, acked, overlapped, concurrent>>

---------------------------------------------------------------------------
(* Bounds of the model *)

\* number of POST /api/products requests answered with 201 in one behaviour
MaxCreates == 1

\* number of concurrent POST /api/seed requests in SeedSpec
NumSeeders == 2

Seeders == 1..NumSeeders

\* the seed client of Spec, which sends one request after another
ApiSeeders == {1}

---------------------------------------------------------------------------
(* Optional values and texts *)

None == <<>>

Some(v) == <<v>>

\* Python truthiness of an Optional[str] query parameter whose value is a
\* text: None and the empty string are falsy (main.py "if animal:", "if q:")
Truthy(opt) == opt # None /\ opt[1] # <<>>

UpperChars == <<"A","B","C","D","E","F","G","H","I","J","K","L","M",
                "N","O","P","Q","R","S","T","U","V","W","X","Y","Z">>

LowerChars == <<"a","b","c","d","e","f","g","h","i","j","k","l","m",
                "n","o","p","q","r","s","t","u","v","w","x","y","z">>

UpperSet == {UpperChars[i] : i \in 1..Len(UpperChars)}

LowerOf ==
    [c \in UpperSet |->
        LowerChars[CHOOSE i \in 1..Len(UpperChars) : UpperChars[i] = c]]

\* case folding of one character
Lower(c) == IF c \in UpperSet THEN LowerOf[c] ELSE c

\* plain substring test, case-insensitive: the "contains" of the comment at
\* main.py:73 and of the specification
ContainsCI(text, sub) ==
    \E k \in 0..(Len(text) - Len(sub)) :
        \A j \in 1..Len(sub) : Lower(text[k + j]) = Lower(sub[j])

\* one pattern character against one text character under regex option "i";
\* "." is the regex wildcard.  The patterns of the model use no other
\* metacharacter.
RegexCharMatch(pc_, c) == pc_ = "." \/ Lower(pc_) = Lower(c)

\* unanchored regex search of pattern in text, option "i"
RegexSearch(pattern, text) ==
    \E k \in 0..(Len(text) - Len(pattern)) :
        \A j \in 1..Len(pattern) : RegexCharMatch(pattern[j], text[k + j])

---------------------------------------------------------------------------
(* The demo products of seed_products *)

Demo1 ==
    [title |-> <<"N","e","o","n"," ","G","l","o","w"," ","C","o","l","l","a","r">>,
     price |-> 2999,
     category |-> "Accessories",
     description |-> <<<<"R","e","c","h","a","r","g","e","a","b","l","e"," ","L","E","D"," ","c","o","l","l","a","r"," ","w","i","t","h"," ","r","a","v","e","-","m","o","d","e"," ","f","o","r"," ","n","i","g","h","t"," ","w","a","l","k","s",".">>>>,
     image_url |-> <<"https://images.unsplash.com/photo-1543466835-00a7907e9de1?q=80&w=1200&auto=format&fit=crop">>,
     animal |-> <<<<"d","o","g","s">>>>,
     colors |-> <<"neon-pink", "electric-blue", "lime">>,
     rating |-> 47,
     tags |-> <<<<"n","e","o","n">>, <<"g","l","o","w">>, <<"n","i","g","h","t">>>>,
     in_stock |-> TRUE]

Demo2 ==
    [title |-> <<"C","a","t","n","i","p"," ","D","i","s","c","o"," ","B","a","l","l">>,
     price |-> 1850,
     category |-> "Toys",
     description |-> <<<<"S","p","a","r","k","l","y"," ","o","r","b"," ","t","h","a","t"," ","s","c","a","t","t","e","r","s"," ","r","a","i","n","b","o","w"," ","r","e","f","l","e","c","t","i","o","n","s"," ","a","c","r","o","s","s"," ","t","h","e"," ","r","o","o","m",".">>>>,
     image_url |-> <<"https://images.unsplash.com/photo-1543852786-1cf6624b9987?q=80&w=1200&auto=format&fit=crop">>,
     animal |-> <<<<"c","a","t","s">>>>,
     colors |-> <<"holographic", "silver">>,
     rating |-> 46,
     tags |-> <<<<"d","i","s","c","o">>, <<"s","p","a","r","k","l","e">>>>,
     in_stock |-> TRUE]

Demo3 ==
    [title |-> <<"T","r","o","p","i","c","a","l"," ","R","e","e","f"," ","P","a","l","a","c","e">>,
     price |-> 8900,
     category |-> "Aquarium",
     description |-> <<<<"A"," ","v","i","b","r","a","n","t"," ","c","o","r","a","l","-","t","h","e","m","e","d"," ","h","a","b","i","t","a","t"," ","w","i","t","h"," ","n","e","o","n"," ","a","c","c","e","n","t","s",".">>>>,
     image_url |-> <<"https://images.unsplash.com/photo-1518837695005-2083093ee35b?q=80&w=1200&auto=format&fit=crop">>,
     animal |-> <<<<"f","i","s","h">>>>,
     colors |-> <<"coral", "aqua", "purple">>,
     rating |-> 48,
     tags |-> <<<<"r","e","e","f">>, <<"a","q","u","a","t","i","c">>, <<"p","r","e","m","i","u","m">>>>,
     in_stock |-> TRUE]

Demo4 ==
    [title |-> <<"F","e","a","t","h","e","r"," ","C","a","r","n","i","v","a","l"," ","W","a","n","d">>,
     price |-> 1299,
     category |-> "Toys",
     description |-> <<<<"R","a","i","n","b","o","w"," ","p","l","u","m","e"," ","t","e","a","s","e","r"," ","f","o","r"," ","c","a","t","s"," ","w","i","t","h"," ","b","e","l","l","s"," ","a","n","d"," ","g","l","i","t","t","e","r"," ","r","i","b","b","o","n",".">>>>,
     image_url |-> <<"https://images.unsplash.com/photo-1592194996308-7b43878e84a6?q=80&w=1200&auto=format&fit=crop">>,
     animal |-> <<<<"c","a","t","s">>>>,
     colors |-> <<"rainbow", "gold">>,
     rating |-> 44,
     tags |-> <<<<"p","l","a","y">>, <<"r","a","i","n","b","o","w">>>>,
     in_stock |-> TRUE]

Demo5 ==
    [title |-> <<"B","i","r","d","i","e"," ","N","e","o","n"," ","G","y","m">>,
     price |-> 5400,
     category |-> "Cages",
     description |-> <<<<"M","o","d","u","l","a","r"," ","p","e","r","c","h"," ","s","y","s","t","e","m"," ","w","i","t","h"," ","c","o","l","o","r","f","u","l"," ","b","e","a","d","s"," ","a","n","d"," ","s","w","i","n","g","s",".">>>>,
     image_url |-> <<"https://images.unsplash.com/photo-1535850836387-0f9dfce30846?q=80&w=1200&auto=format&fit=crop">>,
     animal |-> <<<<"b","i","r","d","s">>>>,
     colors |-> <<"neon-orange", "teal">>,
     rating |-> 45,
     tags |-> <<<<"g","y","m">>, <<"b","e","a","d","s">>>>,
     in_stock |-> TRUE]

\* variant: the last demo product left out
DemoProductsShort == <<Demo1, Demo2, Demo3, Demo4>>

\* variant: the first demo product listed twice
DemoProductsDup == <<Demo1, Demo2, Demo3, Demo4, Demo1>>

DemoProducts == <<Demo1, Demo2, Demo3, Demo4, Demo5>>

---------------------------------------------------------------------------
(* Validation layer *)

\* the fields of ProductCreate that have no default
RequiredFields == {"title", "price", "category"}

\* the defaults of ProductCreate
FieldDefaults ==
    [description |-> None, image_url |-> None, animal |-> None,
     colors |-> <<>>, rating |-> 45, tags |-> <<>>, in_stock |-> TRUE]

ProductFields == RequiredFields \cup DOMAIN FieldDefaults

\* request-body validation of the parameter "payload: ProductCreate": the
\* framework answers 422 without calling the handler when it fails
ProductCreateValid(body) == RequiredFields \subseteq DOMAIN body

\* variant: in_stock defaults to FALSE
model_dump_OutOfStock(body) ==
    [f \in ProductFields |->
        IF f \in DOMAIN body THEN body[f]
        ELSE IF f = "in_stock" THEN FALSE
        ELSE IF f \in DOMAIN FieldDefaults THEN FieldDefaults[f] ELSE None]

\* payload.model_dump(): the submitted fields, defaults for the omitted ones
model_dump(body) ==
    [f \in ProductFields |->
        IF f \in DOMAIN body THEN body[f]
        ELSE IF f \in DOMAIN FieldDefaults THEN FieldDefaults[f] ELSE None]

\* Product(**fields): the canonical shape; title is non-empty text and price
\* is non-negative
ProductValid(d) == d["title"] # <<>> /\ d["title"] # None /\ d["price"] >= 0

---------------------------------------------------------------------------
(* Persistence gateway *)

EmptyFilter == [k \in {} |-> None]

\* the strings a field of a document offers to a $regex clause: the string
\* itself, every element of an array, nothing for null
FieldStrings(doc, field) ==
    IF field = "title" THEN <<doc[field]>> ELSE doc[field]

ClauseMatch(doc, clause) ==
    \E i \in 1..Len(FieldStrings(doc, clause.field)) :
        RegexSearch(clause.regex, FieldStrings(doc, clause.field)[i])

\* a document against a filter dictionary: every key must hold; "$or" holds
\* when one of its clauses does
Matches(doc, filter) ==
    /\ "animal" \in DOMAIN filter => doc["animal"] = Some(filter["animal"])
    /\ "$or" \in DOMAIN filter =>
          \E i \in 1..Len(filter["$or"]) : ClauseMatch(doc, filter["$or"][i])

\* the documents of the collection that match, in collection order
SelectDocs(coll, filter) == SelectSeq(coll, LAMBDA d : Matches(d, filter))

Truncate(s, limit) == IF Len(s) > limit THEN SubSeq(s, 1, limit) ELSE s

\* get_documents(collection, filter, limit) on the collection contents
get_documents(coll, filter, limit) == Truncate(SelectDocs(coll, filter), limit)

\* the identifier the backend assigns to the next inserted document
NewId(coll) == Len(coll) + 1

\* create_document(collection, record): the collection afterwards
create_document(coll, record) ==
    Append(coll, record @@ [k \in {"_id"} |-> NewId(coll)])

---------------------------------------------------------------------------
(* GET /api/products *)

\* variant: limit off by one
LimitOffByOne == 100 + 1

\* the limit list_products passes to get_documents
Limit == 100

\* variant: the animal parameter is ignored
FilterDictNoAnimal(animal, q) ==
    IF Truthy(q)
    THEN [k \in {"$or"} |->
             << [field |-> "title", regex |-> q[1], options |-> "i"],
                [field |-> "description", regex |-> q[1], options |-> "i"],
                [field |-> "tags", regex |-> q[1], options |-> "i"] >>]
    ELSE EmptyFilter

\* the filter dictionary list_products builds from its query parameters
FilterDict(animal, q) ==
    (IF Truthy(animal) THEN [k \in {"animal"} |-> animal[1]] ELSE EmptyFilter)
    @@
    (IF Truthy(q)
     THEN [k \in {"$or"} |->
              << [field |-> "title", regex |-> q[1], options |-> "i"],
                 [field |-> "description", regex |-> q[1], options |-> "i"],
                 [field |-> "tags", regex |-> q[1], options |-> "i"] >>]
     ELSE EmptyFilter)

\* it["_id"] = str(it.get("_id"))
StrId(doc) == [k \in {"_id"} |-> ToString(doc["_id"])] @@ doc

\* the response of list_products; fail: the storage query raises
list_products(coll, animal, q, fail) ==
    IF fail THEN [status |-> 500]
    ELSE LET items == get_documents(coll, FilterDict(animal, q), Limit)
         IN  [status |-> 200,
              items  |-> [i \in 1..Len(items) |-> StrId(items[i])]]

---------------------------------------------------------------------------
(* POST /api/products *)

\* the response of create_product and the collection afterwards;
\* fail: the storage insert raises
create_product(coll, body, fail) ==
    IF ~ProductCreateValid(body)
    THEN [status |-> 422, coll |-> coll]
    ELSE LET prod == model_dump(body)
         IN  IF ~ProductValid(prod) \/ fail
             THEN [status |-> 400, coll |-> coll]
             ELSE [status |-> 201, id |-> ToString(NewId(coll)),
                   coll |-> create_document(coll, prod)]

---------------------------------------------------------------------------
(* POST /api/seed *)

\* the limit seed_products passes to get_documents for its emptiness check
SeedCheckLimit == 1

\* variant: the test inverted
SeedSkipsInverted(existing) == existing = <<>>

\* variant: the test dropped
SeedSkipsNever(existing) == FALSE

\* "if existing:" - a non-empty list is truthy
SeedSkips(existing) == existing # <<>>

SkippedBody == [status |-> "skipped", message |-> "Products already exist"]

OkBody(n) == [status |-> "ok", inserted |-> n]

---------------------------------------------------------------------------
(* Inputs of the model *)

Text_cats == <<"c","a","t","s">>

\* a minimal valid body: every optional field omitted
BodyMinimal ==
    [title |-> <<"B","a","l","l">>, price |-> 500, category |-> "Toys"]

\* a valid body that sets every field
BodyFull ==
    [title |-> <<"N","E","O","N"," ","b","e","d">>, price |-> 0,
     category |-> "Beds",
     description |-> Some(<<"s","o","f","t">>),
     image_url |-> Some("https://example.com/bed.png"),
     animal |-> Some(Text_cats),
     colors |-> <<"red">>, rating |-> 49,
     tags |-> <<<<"n","o","o","n">>>>, in_stock |-> FALSE]

BodyNoTitle == [price |-> 500, category |-> "Toys"]

BodyNoPrice == [title |-> <<"B","a","l","l">>, category |-> "Toys"]

BodyNoCategory == [title |-> <<"B","a","l","l">>, price |-> 500]

\* accepted by ProductCreate, rejected by Product
BodyNegativePrice ==
    [title |-> <<"B","a","l","l">>, price |-> -1, category |-> "Toys"]

Bodies == {BodyMinimal, BodyFull, BodyNoTitle, BodyNoPrice, BodyNoCategory,
           BodyNegativePrice}

Text_dogs == <<"d","o","g","s">>

AnimalParams == {None, Some(<<>>), Some(Text_cats), Some(Text_dogs)}

QParams == {None, Some(<<"N","E","O","N">>), Some(<<"n",".","o","n">>)}

\* a product created by an earlier POST /api/products of the deployment
FillerBody ==
    [title |-> <<"B","o","n","e">>, price |-> 100, category |-> "Food",
     animal |-> Some(<<"d","o","g","s">>)]

\* the collection after n such creations
Prefill(n) ==
    [i \in 1..n |-> model_dump(FillerBody) @@ [k \in {"_id"} |-> i]]

\* sizes of the collection when the service starts: the store outlives the
\* process, and the cases around the list limit need a collection near it
PrefillSizes == {0, Limit - 1, Limit, Limit + 1}

---------------------------------------------------------------------------
(* The state machine *)

NoResp == [status |-> 0]

InitWith(coll, seeders) ==
    /\ docs = coll
    /\ pc = [s \in seeders |-> "idle"]
    /\ inserted = [s \in seeders |-> 0]
    /\ resp = [s \in seeders |-> NoResp]
    /\ last = [op |-> "none"]
    /\ acked = <<>>
    /\ overlapped = FALSE
    /\ concurrent = FALSE

Init == \E n \in PrefillSizes : InitWith(Prefill(n), ApiSeeders)

InitSeed == InitWith(<<>>, Seeders)

\* GET /api/products?animal=..&q=..
ListProducts ==
    \E animal \in AnimalParams, q \in QParams, fail \in BOOLEAN :
        /\ last' = [op |-> "list", animal |-> animal, q |-> q, failed |-> fail,
                    response |-> list_products(docs, animal, q, fail)]
        /\ UNCHANGED <<docs, pc, inserted, resp, acked, overlapped, concurrent>>

\* POST /api/products
CreateProduct ==
    \E body \in Bodies, fail \in BOOLEAN :
        LET r == create_product(docs, body, fail)
            reached == ProductCreateValid(body) /\ ProductValid(model_dump(body))
        IN  /\ Len(acked) < MaxCreates
            /\ fail => reached
            /\ docs' = r.coll
            /\ last' = [op |-> "create", body |-> body, failed |-> fail,
                        response |-> [f \in DOMAIN r \ {"coll"} |-> r[f]]]
            /\ acked' = IF r.status = 201
                        THEN Append(acked, [id |-> r.id, body |-> body])
                        ELSE acked
            /\ UNCHANGED <<pc, inserted, resp, overlapped, concurrent>>

\* POST /api/seed, first round-trip: existing = get_documents("product", {}, limit=1)
SeedCheck(s) ==
    \E fail \in BOOLEAN :
        /\ pc[s] = "idle"
        /\ overlapped' = (overlapped \/ \E o \in DOMAIN pc \ {s} :
                                            pc[o] = "insert" /\ inserted[o] = 0)
        /\ concurrent' = (concurrent \/ \E o \in DOMAIN pc \ {s} : pc[o] = "insert")
        /\ last' = [op |-> "seed", who |-> s, failed |-> fail]
        /\ IF fail
           THEN /\ pc' = [pc EXCEPT ![s] = "done"]
                /\ resp' = [resp EXCEPT ![s] = [status |-> 500]]
           ELSE IF SeedSkips(get_documents(docs, EmptyFilter, SeedCheckLimit))
           THEN /\ pc' = [pc EXCEPT ![s] = "done"]
                /\ resp' = [resp EXCEPT ![s] = [status |-> 200, body |-> SkippedBody]]
           ELSE /\ pc' = [pc EXCEPT ![s] = "insert"]
                /\ resp' = resp
        /\ UNCHANGED <<docs, inserted, acked>>

\* POST /api/seed, one iteration of the loop over demo_products: validate,
\* insert, count; after the last one the handler returns
SeedInsert(s) ==
    \E fail \in BOOLEAN :
        /\ pc[s] = "insert"
        /\ last' = [op |-> "seed", who |-> s, failed |-> fail]
        /\ IF fail \/ ~ProductValid(DemoProducts[inserted[s] + 1])
           THEN /\ pc' = [pc EXCEPT ![s] = "done"]
                /\ resp' = [resp EXCEPT ![s] = [status |-> 500]]
                /\ UNCHANGED <<docs, inserted>>
           ELSE /\ docs' = create_document(docs, DemoProducts[inserted[s] + 1])
                /\ inserted' = [inserted EXCEPT ![s] = @ + 1]
                /\ IF inserted[s] + 1 = Len(DemoProducts)
                   THEN /\ pc' = [pc EXCEPT ![s] = "done"]
                        /\ resp' = [resp EXCEPT ![s] =
                                      [status |-> 200, body |-> OkBody(inserted[s] + 1)]]
                   ELSE UNCHANGED <<pc, resp>>
        /\ UNCHANGED <<acked, overlapped, concurrent>>

\* the seed client sends its next request
SeedAgain(s) ==
    /\ pc[s] = "done"
    /\ pc' = [pc EXCEPT ![s] = "idle"]
    /\ inserted' = [inserted EXCEPT ![s] = 0]
    /\ resp' = [resp EXCEPT ![s] = NoResp]
    /\ last' = [op |-> "none"]
    /\ UNCHANGED <<docs, acked, overlapped, concurrent>>

Next ==
    \/ ListProducts
    \/ CreateProduct
    \/ \E s \in DOMAIN pc : SeedCheck(s)
    \/ \E s \in DOMAIN pc : SeedInsert(s)
    \/ \E s \in DOMAIN pc : SeedAgain(s)

Spec == Init /\ [][Next]_vars

NextSeed ==
    \/ \E s \in DOMAIN pc : SeedCheck(s)
    \/ \E s \in DOMAIN pc : SeedInsert(s)

SeedSpec == InitSeed /\ [][NextSeed]_vars

---------------------------------------------------------------------------
(* Vocabulary of the properties *)

Title1 == <<"N","e","o","n"," ","G","l","o","w"," ","C","o","l","l","a","r">>

Title2 == <<"C","a","t","n","i","p"," ","D","i","s","c","o"," ","B","a","l","l">>

Title3 == <<"T","r","o","p","i","c","a","l"," ","R","e","e","f"," ","P","a","l","a","c","e">>

Title4 == <<"F","e","a","t","h","e","r"," ","C","a","r","n","i","v","a","l"," ","W","a","n","d">>

Title5 == <<"B","i","r","d","i","e"," ","N","e","o","n"," ","G","y","m">>

\* the five titles the seed must insert, in order
SeedTitles == <<Title1, Title2, Title3, Title4, Title5>>

TitlesOf(coll) == [i \in 1..Len(coll) |-> coll[i]["title"]]

ListedOk == last.op = "list" /\ last.response.status = 200

Unfiltered == last.animal = None /\ last.q = None

\* a creation body that both validation passes accept
ValidBody(body) ==
    /\ {"title", "price", "category"} \subseteq DOMAIN body
    /\ body["title"] # <<>>
    /\ body["price"] >= 0

\* a listed item carries the submitted fields, the defaults for the omitted
\* ones, and the identifier the creation returned
ItemMatches(item, a) ==
    /\ item["_id"] = a.id
    /\ \A f \in DOMAIN a.body : item[f] = a.body[f]
    /\ "rating" \notin DOMAIN a.body => item["rating"] = 45
    /\ "in_stock" \notin DOMAIN a.body => item["in_stock"] = TRUE
    /\ "colors" \notin DOMAIN a.body => item["colors"] = <<>>
    /\ "tags" \notin DOMAIN a.body => item["tags"] = <<>>

Created201 ==
    (last.op = "create" /\ ValidBody(last.body) /\ ~last.failed)
        => last.response.status = 201

AllAckedListed ==
    \A i \in 1..Len(acked) :
        \E k \in 1..Len(last.response.items) :
            ItemMatches(last.response.items[k], acked[i])

\* seed request s ran with no other seed request started
Alone(s) == \A o \in DOMAIN pc \ {s} : pc[o] = "idle"

SeedOk(s) == resp[s].status = 200 /\ resp[s].body.status = "ok"

SeedSkipped(s) == resp[s].status = 200 /\ resp[s].body.status = "skipped"

AllSeedsAnswered ==
    \A s \in DOMAIN pc : pc[s] = "done" /\ resp[s].status = 200

SeededExactlyOnce ==
    /\ Len(docs) = 5
    /\ \A i, j \in 1..Len(docs) : docs[i]["title"] = docs[j]["title"] => i = j
    /\ \A i \in 1..Len(docs) : \E k \in 1..5 : docs[i]["title"] = SeedTitles[k]
    /\ Cardinality({s \in DOMAIN pc : SeedOk(s)}) <= 1

---------------------------------------------------------------------------
(* C1 *)

\* C1 as stated: for every valid creation body and every prior collection,
\* also one of 100 or more products, the creation is answered 201 and a
\* later unfiltered listing contains the created record with its defaults.
C1_AsStated ==
    /\ Created201
    /\ (ListedOk /\ Unfiltered) => AllAckedListed

\* C1 amended: when storage does not fail a valid creation is answered 201,
\* and a later unfiltered listing made while the collection holds at most
\* 100 products contains the created record with the defaults applied
\* (rating 4.5, in_stock true, empty colors and tags).
C1_CreateThenList ==
    /\ Created201
    /\ (ListedOk /\ Unfiltered /\ Len(docs) <= 100) => AllAckedListed

\* a full collection of 100 whose last record was created with defaults
C1_Witness ==
    /\ ListedOk /\ Unfiltered
    /\ Len(docs) = 100
    /\ \E i \in 1..Len(acked) :
          /\ acked[i].body = BodyMinimal
          /\ ItemMatches(last.response.items[100], acked[i])

---------------------------------------------------------------------------
(* C2 *)

\* C2: a seed request that runs alone on an empty collection, with no
\* storage failure, inserts exactly the five demo products, one per title,
\* and answers {"status": "ok", "inserted": 5}.
C2_SeedOnEmpty ==
    \A s \in DOMAIN pc :
        (Alone(s) /\ pc[s] = "done" /\ resp[s].status # 500) =>
            /\ resp[s] = [status |-> 200,
                          body |-> [status |-> "ok", inserted |-> 5]]
            /\ TitlesOf(docs) = SeedTitles

C2_Witness ==
    \E s \in DOMAIN pc : Alone(s) /\ SeedOk(s) /\ Len(docs) = 5

---------------------------------------------------------------------------
(* C3 *)

\* C3: a seed request whose emptiness check runs on a collection that holds
\* at least one product leaves the collection unchanged and, unless the
\* check itself fails, is answered "skipped" without inserting anything.
C3_SeedSkipsNonEmpty ==
    [][\A s \in DOMAIN pc :
          (pc[s] = "idle" /\ pc'[s] # "idle" /\ docs # <<>>) =>
              /\ docs' = docs
              /\ pc'[s] = "done"
              /\ inserted'[s] = 0
              /\ resp'[s].status # 500 =>
                    resp'[s] = [status |-> 200,
                                body |-> [status |-> "skipped",
                                          message |-> "Products already exist"]]
      ]_vars

\* a seed skipped on a collection that holds the five seeded products and a
\* product created through POST /api/products
C3_Witness ==
    /\ \E s \in DOMAIN pc : SeedSkipped(s)
    /\ Len(acked) > 0
    /\ Len(docs) = 6
    /\ \E i \in 1..Len(docs) : docs[i]["title"] = Title1

---------------------------------------------------------------------------
(* C4 *)

MissingRequired(body) ==
    \E f \in {"title", "price", "category"} : f \notin DOMAIN body

\* C4: a creation body that lacks title, price or category is answered
\* 400.
C4_MissingFieldIs400 ==
    (last.op = "create" /\ MissingRequired(last.body))
        => last.response.status = 400

---------------------------------------------------------------------------
(* C5 *)

AllItemsHaveAnimal ==
    \A k \in 1..Len(last.response.items) :
        last.response.items[k]["animal"] = last.animal

\* C5 as stated: whenever the animal parameter is given, the empty string
\* included, every returned record has exactly that animal.
C5_AsStated ==
    (ListedOk /\ last.animal # None) => AllItemsHaveAnimal

\* C5 amended: whenever a non-empty animal parameter is given, every
\* returned record has exactly that animal; an empty value filters nothing.
C5_AnimalFilter ==
    (ListedOk /\ last.animal # None /\ last.animal[1] # <<>>)
        => AllItemsHaveAnimal

\* cats listed out of a collection that also holds other animals
C5_Witness ==
    /\ ListedOk
    /\ last.animal = Some(<<"c","a","t","s">>)
    /\ last.q = None
    /\ Len(last.response.items) = 2
    /\ \E i \in 1..Len(docs) : docs[i]["animal"] = Some(<<"d","o","g","s">>)

---------------------------------------------------------------------------
(* C6 *)

ItemContains(item, sub) ==
    \/ ContainsCI(item["title"], sub)
    \/ \E i \in 1..Len(item["description"]) :
          ContainsCI(item["description"][i], sub)
    \/ \E i \in 1..Len(item["tags"]) : ContainsCI(item["tags"][i], sub)

\* C6: whenever q is given, a record is returned only if its title, its
\* description or one of its tags contains q as a case-insensitive
\* substring, and only if it also has the animal given (an empty animal
\* value is the case of C5 and is left out here).
C6_SubstringSearch ==
    (ListedOk /\ last.q # None) =>
        \A k \in 1..Len(last.response.items) :
            /\ ItemContains(last.response.items[k], last.q[1])
            /\ (last.animal # None /\ last.animal[1] # <<>>) =>
                   last.response.items[k]["animal"] = last.animal

---------------------------------------------------------------------------
(* C7 *)

\* C7: a listing returns at most 100 items, whatever the filters and
\* however many products are stored.
C7_AtMost100 == ListedOk => Len(last.response.items) <= 100

\* more than 100 stored that match the filter, 100 listed
C7_Witness ==
    /\ ListedOk
    /\ last.animal = Some(<<"d","o","g","s">>) /\ last.q = None
    /\ Len(SelectSeq(docs, LAMBDA d : d["animal"] = last.animal)) > 100
    /\ Len(docs) > 100
    /\ Len(last.response.items) = 100

---------------------------------------------------------------------------
(* C8 *)

\* C8: a storage failure in the storage operation of GET /api/products,
\* POST /api/products or POST /api/seed is answered 500 on that request.
C8_StorageFailureIs500 ==
    /\ (last.op \in {"list", "create"} /\ last.failed)
          => last.response.status = 500
    /\ (last.op = "seed" /\ last.failed)
          => (pc[last.who] = "done" /\ resp[last.who].status = 500)

---------------------------------------------------------------------------
(* C9 *)

\* C9 as stated: for any interleaving of concurrent seed requests on an
\* empty collection (none of them hit by a storage failure), the collection
\* ends with exactly the 5 demo products, each title once, and at most one
\* request is answered "ok".
C9_AsStated == AllSeedsAnswered => SeededExactlyOnce

\* C9 amended: the same, for every interleaving in which no request makes
\* its emptiness check while another one is between its own check and its
\* first insert; a check made after another request's first insert is
\* covered.
C9_SeedOnceUnlessRaced ==
    (AllSeedsAnswered /\ ~overlapped) => SeededExactlyOnce

\* one request checked while the other was still inserting, and was skipped
C9_Witness ==
    /\ AllSeedsAnswered /\ ~overlapped /\ concurrent
    /\ \E s \in DOMAIN pc : SeedOk(s)
    /\ \E s \in DOMAIN pc : SeedSkipped(s)

---------------------------------------------------------------------------
(* C10 *)

\* C10 as stated: a seed request that runs alone on an empty collection and
\* is answered 500 leaves the collection as it was, empty.
C10_AsStated ==
    \A s \in DOMAIN pc :
        (Alone(s) /\ resp[s].status = 500) => docs = <<>>

\* C10 amended: a storage failure on one of the five inserts is answered
\* 500, and the demo products inserted before it stay in the collection;
\* when there are any, later seed requests are answered "skipped" (or 500),
\* so the full set is never inserted.
C10_PartialSeedRemains ==
    /\ (last.op = "seed" /\ last.failed)
          => (pc[last.who] = "done" /\ resp[last.who].status = 500)
    /\ \A s \in DOMAIN pc :
          (Alone(s) /\ resp[s].status = 500) =>
              /\ inserted[s] < 5
              /\ TitlesOf(docs) = SubSeq(SeedTitles, 1, inserted[s])
    /\ ~overlapped =>
          \A s, o \in DOMAIN pc :
              (resp[s].status = 500 /\ inserted[s] > 0 /\ o # s) =>
                  /\ resp[o].status = 200 => SeedSkipped(o)
                  /\ Len(docs) = inserted[s]

\* two products inserted, the third insert failed, the next seed skipped
C10_Witness ==
    /\ ~overlapped
    /\ \E s, o \in DOMAIN pc :
          /\ resp[s].status = 500
          /\ inserted[s] = 2
          /\ Len(docs) = 2
          /\ SeedSkipped(o)
=============================================================================
